---- MODULE Spec2Model ----
\* Model of xsvftool-ft232r2.c (LINUX build): the FT232R synchronous bitbang
\* layer (the bb_ functions) and the libxsvf host callbacks (the h_ functions)
\* built on it.  Every callback is one atomic action; the external
\* collaborators (libftdi, gettimeofday, usleep) are inputs and logged calls.
EXTENDS Integers, Sequences, FiniteSets, TLC

(* ---------------------------------------------------------------------- *)
(* Bounds of the model                                                     *)
(* ---------------------------------------------------------------------- *)
\* number of host callbacks made in one run
MaxCalls == 3
\* largest num_tck handed to h_udelay
MaxTck == 2
\* number of capturing exchanges already made in the states InitCap starts in
CapStart == 254
\* number of memory classes (LIBXSVF_MEM_NUM of libxsvf.h) that are modelled
MemNum == 3
\* the capture sequences rendered include every bit sequence up to this length
HexMaxLen == 8
\* largest difference of tv_sec between the two timestamps of a delay
MaxSec == 2

(* ---------------------------------------------------------------------- *)
(* Program constants                                                       *)
(* ---------------------------------------------------------------------- *)
MASK_TMS == 128
MASK_TDI == 8
MASK_TDO == 64
MASK_TCK == 32
BAUDRATE == 62500
LATENCY == 1
\* int retval[256] and the test retval_i < 256
RETVAL_SIZE == 256

(* ---------------------------------------------------------------------- *)
(* C operators on unsigned char                                            *)
(* ---------------------------------------------------------------------- *)
\* bit i of x
BitAt(x, i) == (x \div (2 ^ i)) % 2

\* a & b for 4-bit a and b
And4 ==
    [a \in 0 .. 15 |-> [b \in 0 .. 15 |->
          (a % 2) * (b % 2)
        + ((a \div 2) % 2) * ((b \div 2) % 2) * 2
        + ((a \div 4) % 2) * ((b \div 4) % 2) * 4
        + ((a \div 8) % 2) * ((b \div 8) % 2) * 8]]

\* a & b, a | b, ~a on unsigned char
And8(a, b) == And4[a \div 16][b \div 16] * 16 + And4[a % 16][b % 16]
Or8(a, b) == a + b - And8(a, b)
Not8(a) == 255 - a

\* a | b for ints a, b >= 0 of any size, four bits at a time
RECURSIVE OrInt(_, _)
OrInt(a, b) ==
    IF a = 0 THEN b
    ELSE IF b = 0 THEN a
    ELSE (a % 16) + (b % 16) - And4[a % 16][b % 16]
         + 16 * OrInt(a \div 16, b \div 16)

MASK_IO == Or8(Or8(MASK_TMS, MASK_TDI), MASK_TCK)

(* ---------------------------------------------------------------------- *)
(* Logged calls into the external collaborators                            *)
(* ---------------------------------------------------------------------- *)
\* one call: its name, its arguments, and for ftdi_write_data and
\* ftdi_read_data the ordinal of the call among the writes resp. reads
Ev(name, data, n) == [data |-> data, n |-> n, ev |-> name]

(* ---------------------------------------------------------------------- *)
(* Inputs                                                                  *)
(* ---------------------------------------------------------------------- *)
\* Outcome of ftdi_read_data(&bb_handle, buf_in, 3): the returned length and
\* the content of buf_in afterwards.  buf_in is an uninitialised local, so
\* after a failed or short read the bytes not delivered hold arbitrary
\* values.
ReadFull ==
    { [len |-> 3, buf |-> <<64, 64, 191>>],
      [len |-> 3, buf |-> <<0, 0, 64>>],
      [len |-> 3, buf |-> <<255, 255, 255>>] }
ReadFail ==
    { [len |-> -1, buf |-> <<0, 0, 0>>],
      [len |-> -1, buf |-> <<17, 64, 64>>] }
\* a device that was never opened delivers nothing
ReadOutcomes(open) == IF open THEN ReadFull \cup ReadFail ELSE ReadFail

TmsVals == {0, 1}
TdiVals == {-1, 0, 1}
TdoVals == {-1, 0, 1}
RmaskVals == {0, 1}
SyncVals == {0, 1}
UsecVals == {-3, 0, 250, 400}
NumTckVals == {-1} \cup (0 .. MaxTck)
\* <<tv1, tv2>>, each <<tv_sec, tv_usec>>, read before and after the loop
TimePairs ==
    { << <<5, 100>>, <<5, 100>> >>,
      << <<5, 100>>, <<5, 350>> >>,
      << <<5, 999900>>, <<6, 150>> >>,
      << <<5, 999900>>, <<7, 150>> >> }

\* sizes the engine asks h_realloc for
SizeVals == {0, 2, 5}
\* memory classes, enum libxsvf_mem
MemClasses == 0 .. MemNum - 1
\* capture sequences to print: none, every bit sequence of up to HexMaxLen
\* bits, and four that fill the array or nearly so
HexInputs ==
    UNION { [1 .. n -> {0, 1}] : n \in 0 .. HexMaxLen }
    \cup { [i \in 1 .. n |-> IF i % 3 = 0 THEN 0 ELSE 1] :
                n \in RETVAL_SIZE - 3 .. RETVAL_SIZE }
\* 0: decimal list, 1: -L, 2: -B
HexModes == {0, 1, 2}
\* TRST levels the engine asks for: low, high, high-impedance, absent
TrstVals == {-2, -1, 0, 1}
\* clock frequencies in Hz
FreqVals == {0, 1000000}
\* values of tv_usec: the lowest, the highest, and two between
UsecFields == {0, 1, 500000, 999999}
\* every <<tv1, tv2>> over those fields with tv2 not earlier than tv1 and at
\* most MaxSec second boundaries between them
TimePairsWide ==
    { tv \in ({5} \X UsecFields) \X ((5 .. 5 + MaxSec) \X UsecFields) :
        tv[2][1] > tv[1][1] \/ tv[2][2] >= tv[1][2] }
\* requested delays: none, one shorter than a second, and one longer than
\* any time the loop takes
UsecWide == {0, 400, (MaxSec + 1) * 1000000}

(* ---------------------------------------------------------------------- *)
(* State                                                                   *)
(* ---------------------------------------------------------------------- *)
VARIABLES
    bb_reg,        \* static unsigned char bb_reg
    usb_open,      \* bb_handle holds an opened device
    clockcount,    \* u.clockcount
    bitcount_tdi,  \* u.bitcount_tdi
    bitcount_tdo,  \* u.bitcount_tdo
    retval_i,      \* u.retval_i
    retval,        \* u.retval[0 .. retval_i-1]
    nwrites,       \* ftdi_write_data calls made so far
    nreads,        \* ftdi_read_data calls made so far
    ncalls,        \* host callbacks made since the initial state
    call,          \* the host callback that has just run, and its arguments
    rd,            \* outcome of the last ftdi_read_data of that callback
    ret,           \* what that callback returned
    log,           \* external calls that callback made, in order
    hex_mode,      \* main's hex_mode: 0, 1 after -L, 2 after -B
    realloc_maxsize \* static int realloc_maxsize[LIBXSVF_MEM_NUM]

vars == <<bb_reg, usb_open, clockcount, bitcount_tdi, bitcount_tdo, retval_i,
          retval, nwrites, nreads, ncalls, call, rd, ret, log, hex_mode,
          realloc_maxsize>>

\* what no callback of the pin and transport layer touches
mainvars == <<hex_mode, realloc_maxsize>>

Call(op, tms, tdi, tdo, rmask, usecs, num_tck, tv) ==
    [op |-> op, tms |-> tms, tdi |-> tdi, tdo |-> tdo, rmask |-> rmask,
     usecs |-> usecs, num_tck |-> num_tck, tv1 |-> tv[1], tv2 |-> tv[2],
     v |-> <<>>]

NoTime == << <<0, 0>>, <<0, 0>> >>
NoRead == [len |-> 0, buf |-> <<0, 0, 0>>]
NoCall == Call("none", 0, 0, 0, 0, 0, 0, NoTime)
NoRet == [rc |-> 0, line_tdo |-> 0]

\* a callback or a part of main whose arguments are the integers v
CallV(op, v) == [NoCall EXCEPT !.op = op, !.v = v]

\* between two callbacks: the sequencing engine is about to make its next call
Idle == call.op = "none"

(* ---------------------------------------------------------------------- *)
(* Low-level bitbang layer                                                 *)
(* ---------------------------------------------------------------------- *)
\* bb_tms as it would be if it assigned the mask instead of setting the bit
bb_tms_clobber(reg, val) ==
    IF val # 0 THEN MASK_TMS ELSE 0

bb_tms(reg, val) ==
    IF val # 0 THEN Or8(reg, MASK_TMS) ELSE And8(reg, Not8(MASK_TMS))

\* bb_tdi as it would be with the input pin's mask in place of MASK_TDI
bb_tdi_wrongpin(reg, val) ==
    IF val # 0 THEN Or8(reg, MASK_TDO) ELSE And8(reg, Not8(MASK_TDO))

bb_tdi(reg, val) ==
    IF val # 0 THEN Or8(reg, MASK_TDI) ELSE And8(reg, Not8(MASK_TDI))

\* buf_out as it would be if the second byte did not raise the clock
buf_out_noclock(reg) ==
    LET b0 == And8(reg, Not8(MASK_TCK))
    IN  <<b0, reg, b0>>

\* buf_out[0..2] of bb_pulse_tck
buf_out(reg) ==
    LET b0 == And8(reg, Not8(MASK_TCK))
        b1 == Or8(reg, MASK_TCK)
    IN  <<b0, b1, b0>>

\* tdo_value as it would be if it sampled the first byte read back
tdo_value_first(buf_in) == IF And8(buf_in[1], MASK_TDO) # 0 THEN 1 ELSE 0

\* the value bb_pulse_tck returns, from buf_in after the read
tdo_value(buf_in) == IF And8(buf_in[3], MASK_TDO) # 0 THEN 1 ELSE 0

\* pulse_io as it would be if the read were issued before the write
pulse_io_readfirst(out, nw, nr) ==
    << Ev("ftdi_read_data", <<3>>, nr + 1), Ev("ftdi_write_data", out, nw + 1) >>

\* the write and the read of one pulse, in the order they are issued
pulse_io(out, nw, nr) ==
    << Ev("ftdi_write_data", out, nw + 1), Ev("ftdi_read_data", <<3>>, nr + 1) >>

\* bb_pulse_tck with bb_reg = reg, after nw writes and nr reads, when the
\* read leaves r in buf_in
bb_pulse_tck(reg, r, nw, nr) ==
    [reg |-> reg,
     tdo |-> tdo_value(r.buf),
     log |-> pulse_io(buf_out(reg), nw, nr),
     nw |-> nw + 1,
     nr |-> nr + 1]

\* bb_setup; ok is the result of ftdi_usb_open
bb_setup(reg, ok) ==
    [reg |-> IF ok THEN 0 ELSE reg,
     open |-> ok,
     log |-> << Ev("ftdi_init", <<>>, 0), Ev("ftdi_usb_open", <<1027, 24577>>, 0) >>
             \o (IF ok
                 THEN << Ev("ftdi_set_baudrate", <<BAUDRATE>>, 0),
                         Ev("ftdi_set_latency_timer", <<LATENCY>>, 0),
                         Ev("ftdi_set_bitmode", <<MASK_IO, 4>>, 0) >>
                 ELSE << Ev("puts", <<>>, 0) >>)]

bb_shutdown == << Ev("ftdi_set_bitmode", <<0, 0>>, 0) >>

(* ---------------------------------------------------------------------- *)
(* h_pulse_tck                                                             *)
(* ---------------------------------------------------------------------- *)
\* pulse_drive as it would be with the test tdi > 0
pulse_drive_positive(reg, cnt, tms, tdi) ==
    LET r1 == bb_tms(reg, tms)
    IN  IF tdi > 0
        THEN [reg |-> bb_tdi(r1, tdi), bitcount_tdi |-> cnt + 1]
        ELSE [reg |-> r1, bitcount_tdi |-> cnt]

\* bb_tms(tms); if (tdi >= 0) { u->bitcount_tdi++; bb_tdi(tdi); }
pulse_drive(reg, cnt, tms, tdi) ==
    LET r1 == bb_tms(reg, tms)
    IN  IF tdi >= 0
        THEN [reg |-> bb_tdi(r1, tdi), bitcount_tdi |-> cnt + 1]
        ELSE [reg |-> r1, bitcount_tdi |-> cnt]

\* pulse_capture as it would be with the test retval_i <= 256
pulse_capture_offbyone(rv, rvi, rmask, line_tdo) ==
    IF rmask = 1 /\ rvi <= RETVAL_SIZE
    THEN [retval |-> Append(rv, line_tdo), retval_i |-> rvi + 1]
    ELSE [retval |-> rv, retval_i |-> rvi]

\* if (rmask == 1 && u->retval_i < 256) u->retval[u->retval_i++] = line_tdo;
pulse_capture(rv, rvi, rmask, line_tdo) ==
    IF rmask = 1 /\ rvi < RETVAL_SIZE
    THEN [retval |-> Append(rv, line_tdo), retval_i |-> rvi + 1]
    ELSE [retval |-> rv, retval_i |-> rvi]

\* pulse_compare as it would be if only matching bits were counted
pulse_compare_matchonly(cnt, tdo, line_tdo) ==
    LET rc0 == IF line_tdo >= 0 THEN line_tdo ELSE 0
    IN  IF tdo >= 0 /\ line_tdo >= 0
        THEN IF tdo # line_tdo
             THEN [rc |-> -1, bitcount_tdo |-> cnt]
             ELSE [rc |-> rc0, bitcount_tdo |-> cnt + 1]
        ELSE [rc |-> rc0, bitcount_tdo |-> cnt]

\* rc = line_tdo >= 0 ? line_tdo : 0; the comparison with tdo
pulse_compare(cnt, tdo, line_tdo) ==
    LET rc0 == IF line_tdo >= 0 THEN line_tdo ELSE 0
    IN  IF tdo >= 0 /\ line_tdo >= 0
        THEN [rc |-> IF tdo # line_tdo THEN -1 ELSE rc0, bitcount_tdo |-> cnt + 1]
        ELSE [rc |-> rc0, bitcount_tdo |-> cnt]

\* u->clockcount++
pulse_count(cnt) == cnt + 1

(* ---------------------------------------------------------------------- *)
(* h_udelay                                                                *)
(* ---------------------------------------------------------------------- *)
\* while (num_tck > 0) { bb_pulse_tck(); num_tck--; }
RECURSIVE udelay_loop(_, _, _, _, _)
udelay_loop(reg, num_tck, rds, nw, nr) ==
    IF num_tck > 0
    THEN LET p == bb_pulse_tck(reg, Head(rds), nw, nr)
             rest == udelay_loop(p.reg, num_tck - 1, Tail(rds), p.nw, p.nr)
         IN  [reg |-> rest.reg, log |-> p.log \o rest.log,
              nw |-> rest.nw, nr |-> rest.nr]
    ELSE [reg |-> reg, log |-> <<>>, nw |-> nw, nr |-> nr]

\* udelay_residual as it would be if tv1.tv_usec were not set to 0 once the
\* seconds differ
udelay_residual_keepusec(usecs, tv1, tv2) ==
    LET crossed == tv2[1] > tv1[1]
        u1 == IF crossed
              THEN usecs - ((1000000 - tv1[2]) + (tv2[1] - tv1[1] - 1) * 1000000)
              ELSE usecs
    IN  u1 - (tv2[2] - tv1[2])

\* usecs after the time spent between tv1 and tv2 is taken off
udelay_residual(usecs, tv1, tv2) ==
    LET crossed == tv2[1] > tv1[1]
        u1 == IF crossed
              THEN usecs - ((1000000 - tv1[2]) + (tv2[1] - tv1[1] - 1) * 1000000)
              ELSE usecs
        us1 == IF crossed THEN 0 ELSE tv1[2]
    IN  u1 - (tv2[2] - us1)

\* udelay_sleep as it would be without the test usecs > 0
udelay_sleep_always(usecs) == << Ev("usleep", <<usecs>>, 0) >>

\* if (usecs > 0) usleep(usecs);
udelay_sleep(usecs) ==
    IF usecs > 0 THEN << Ev("usleep", <<usecs>>, 0) >> ELSE <<>>

\* h_udelay as it would be without the call bb_tms(tms) in front of the loop
h_udelay_notms(reg, usecs, tms, num_tck, tv1, tv2, rds, nw, nr) ==
    IF num_tck > 0
    THEN LET loop == udelay_loop(reg, num_tck, rds, nw, nr)
         IN  [reg |-> loop.reg,
              log |-> << Ev("gettimeofday", <<>>, 0) >> \o loop.log
                      \o << Ev("gettimeofday", <<>>, 0) >>
                      \o udelay_sleep(udelay_residual(usecs, tv1, tv2)),
              nw |-> loop.nw, nr |-> loop.nr]
    ELSE [reg |-> reg, log |-> udelay_sleep(usecs), nw |-> nw, nr |-> nr]

h_udelay(reg, usecs, tms, num_tck, tv1, tv2, rds, nw, nr) ==
    IF num_tck > 0
    THEN LET loop == udelay_loop(bb_tms(reg, tms), num_tck, rds, nw, nr)
         IN  [reg |-> loop.reg,
              log |-> << Ev("gettimeofday", <<>>, 0) >> \o loop.log
                      \o << Ev("gettimeofday", <<>>, 0) >>
                      \o udelay_sleep(udelay_residual(usecs, tv1, tv2)),
              nw |-> loop.nw, nr |-> loop.nr]
    ELSE [reg |-> reg, log |-> udelay_sleep(usecs), nw |-> nw, nr |-> nr]

(* ---------------------------------------------------------------------- *)
(* Initial states                                                          *)
(* ---------------------------------------------------------------------- *)
Init ==
    /\ bb_reg = 0
    /\ usb_open = FALSE
    /\ clockcount = 0
    /\ bitcount_tdi = 0
    /\ bitcount_tdo = 0
    /\ retval_i = 0
    /\ retval = <<>>
    /\ nwrites = 0
    /\ nreads = 0
    /\ ncalls = 0
    /\ call = NoCall
    /\ rd = NoRead
    /\ ret = NoRet
    /\ log = <<>>
    /\ hex_mode = 0
    /\ realloc_maxsize = [i \in MemClasses |-> 0]

\* States reached from Init by a successful h_setup followed by CapStart
\* exchanges h_pulse_tck(h, 0, -1, -1, 1, 0): every exchange captured the bit
\* it sampled, so the capture buffer holds CapStart bits.
CapPatterns ==
    { [i \in 1 .. CapStart |-> 0],
      [i \in 1 .. CapStart |-> i % 2] }

InitCap ==
    /\ bb_reg = 0
    /\ usb_open = TRUE
    /\ clockcount = CapStart
    /\ bitcount_tdi = 0
    /\ bitcount_tdo = 0
    /\ retval_i = CapStart
    /\ retval \in CapPatterns
    /\ nwrites = CapStart
    /\ nreads = CapStart
    /\ ncalls = 0
    /\ call = NoCall
    /\ rd = NoRead
    /\ ret = NoRet
    /\ log = <<>>
    /\ hex_mode = 0
    /\ realloc_maxsize = [i \in MemClasses |-> 0]

(* ---------------------------------------------------------------------- *)
(* Signals the adapter does not drive                                      *)
(* ---------------------------------------------------------------------- *)
\* fprintf(stderr, "WARNING: Pulsing SCK ignored!\n");
h_pulse_sck ==
    [rc |-> 0, log |-> << Ev("fprintf_stderr_sck_ignored", <<>>, 0) >>]

\* fprintf(stderr, "WARNING: Setting TRST to %d ignored!\n", v);
h_set_trst(v) ==
    [rc |-> 0, log |-> << Ev("fprintf_stderr_trst_ignored", <<v>>, 0) >>]

\* h_set_frequency as it would be if it reported the request as failed
h_set_frequency_fail(v) ==
    [rc |-> -1, log |-> << Ev("fprintf_stderr_frequency_ignored", <<v>>, 0) >>]

\* fprintf(stderr, "WARNING: Setting JTAG clock frequency to %d ignored!\n",
\* v); return 0;
h_set_frequency(v) ==
    [rc |-> 0, log |-> << Ev("fprintf_stderr_frequency_ignored", <<v>>, 0) >>]

(* ---------------------------------------------------------------------- *)
(* main: printing the captured bits                                        *)
(* ---------------------------------------------------------------------- *)
\* hex_index as it would be with the two modes exchanged
hex_index_swapped(mode, n, j) == IF mode > 1 THEN n - j - 1 ELSE j

\* hex_index as it would be if -L reversed the bits inside each group of four
\* and kept the groups in capture order
hex_index_ingroup(mode, n, j) == IF mode > 1 THEN j ELSE j - (j % 4) + 3 - (j % 4)

\* hex_mode > 1 ? j : u.retval_i - j - 1
hex_index(mode, n, j) == IF mode > 1 THEN j ELSE n - j - 1

\* What lies in front of u.retval: the array is the last member of struct
\* udata_s, behind the ints bitcount_tdi, bitcount_tdo and retval_i, so that
\* u.retval[-1] is u.retval_i, u.retval[-2] is u.bitcount_tdo and u.retval[-3]
\* is u.bitcount_tdi.
udata_front(tdi_cnt, tdo_cnt, ri) ==
    [idx \in (-3) .. (-1) |->
        IF idx = -1 THEN ri ELSE IF idx = -2 THEN tdo_cnt ELSE tdi_cnt]

\* u.retval[idx]: a captured bit, or the 0 that a slot of the static array
\* never written still holds, or, for an index below the array, the struct
\* member that lies there (junk)
retval_at(rv, idx, junk) ==
    IF idx >= 0 /\ idx < Len(rv) THEN rv[idx + 1]
    ELSE IF idx >= Len(rv) /\ idx < RETVAL_SIZE THEN 0
    ELSE junk[idx]

\* for (j = ...; j < stop; j++) val = val << 1 | u.retval[...];
RECURSIVE hex_group(_, _, _, _, _, _, _)
hex_group(rv, n, mode, j, stop, val, junk) ==
    IF j < stop
    THEN LET idx == hex_index(mode, n, j)
             rest == hex_group(rv, n, mode, j + 1, stop,
                               OrInt(2 * val, retval_at(rv, idx, junk)), junk)
         IN  [val |-> rest.val,
              log |-> << Ev("u_retval", <<idx>>, 0) >> \o rest.log]
    ELSE [val |-> val, log |-> <<>>]

\* hex_loop as it would be if it stopped before a group that is not complete
RECURSIVE hex_loop_whole(_, _, _, _, _)
hex_loop_whole(rv, n, mode, i, junk) ==
    IF i + 4 <= n
    THEN LET g == hex_group(rv, n, mode, i, i + 4, 0, junk)
         IN  g.log \o << Ev("printf_x", <<g.val>>, 0) >>
             \o hex_loop_whole(rv, n, mode, i + 4, junk)
    ELSE <<>>

\* for (i = ...; i < u.retval_i; i += 4) { int val = 0; ...; printf("%x", val); }
RECURSIVE hex_loop(_, _, _, _, _)
hex_loop(rv, n, mode, i, junk) ==
    IF i < n
    THEN LET g == hex_group(rv, n, mode, i, i + 4, 0, junk)
         IN  g.log \o << Ev("printf_x", <<g.val>>, 0) >>
             \o hex_loop(rv, n, mode, i + 4, junk)
    ELSE <<>>

\* for (i = ...; i < u.retval_i; i++) printf(" %d", u.retval[i]);
\* the k-th call of the loop's pass i reads u.retval[i] or prints it
dec_loop(rv, n, i, junk) ==
    [k \in 1 .. 2 * (IF i < n THEN n - i ELSE 0) |->
        LET at == i + (k - 1) \div 2
        IN  IF k % 2 = 1
            THEN Ev("u_retval", <<at>>, 0)
            ELSE Ev("printf_d", <<retval_at(rv, at, junk)>>, 0)]

\* if (u.retval_i) { ... printf("\n"); }
main_render(rv, n, mode, junk) ==
    IF n # 0
    THEN (IF mode # 0
          THEN << Ev("printf_0x", <<>>, 0) >> \o hex_loop(rv, n, mode, 0, junk)
          ELSE << Ev("printf_rmask_bits", <<n>>, 0) >>
               \o dec_loop(rv, n, 0, junk))
         \o << Ev("printf_newline", <<>>, 0) >>
    ELSE <<>>

(* ---------------------------------------------------------------------- *)
(* Memory profile and the allocator main prints from it                    *)
(* ---------------------------------------------------------------------- *)
\* the null pointer, (void*)0, among buffers named by their class index
Null == -1

\* h_realloc as it would be if it recorded the last size requested
h_realloc_last(maxsize, size, which) ==
    [maxsize |-> [maxsize EXCEPT ![which] = size],
     log |-> << Ev("realloc", <<size>>, 0) >>]

\* if (size > realloc_maxsize[which]) realloc_maxsize[which] = size;
\* return realloc(ptr, size);
h_realloc(maxsize, size, which) ==
    [maxsize |-> IF size > maxsize[which]
                 THEN [maxsize EXCEPT ![which] = size]
                 ELSE maxsize,
     log |-> << Ev("realloc", <<size>>, 0) >>]

\* for (i = ...; i < LIBXSVF_MEM_NUM; i++) if (realloc_maxsize[i] > 0) num = i+1;
RECURSIVE emit_num(_, _, _)
emit_num(maxsize, i, num) ==
    IF i < MemNum
    THEN emit_num(maxsize, i + 1, IF maxsize[i] > 0 THEN i + 1 ELSE num)
    ELSE num

\* for (i = ...; i < num; i++) if (realloc_maxsize[i] > 0)
\*     printf("\tstatic unsigned char buf_%s[%d];\n", ...);
RECURSIVE emit_bufs(_, _, _)
emit_bufs(maxsize, i, num) ==
    IF i < num
    THEN (IF maxsize[i] > 0
          THEN << Ev("static_buf", <<i, maxsize[i]>>, 0) >>
          ELSE <<>>) \o emit_bufs(maxsize, i + 1, num)
    ELSE <<>>

\* the initialisers of buflist[num]: buf_<class> or (void*)0
emit_buflist(maxsize, num) ==
    [k \in 1 .. num |-> IF maxsize[k - 1] > 0 THEN k - 1 ELSE Null]

\* the initialisers of sizelist[num]: sizeof(buf_<class>) or 0
emit_sizelist(maxsize, num) ==
    [k \in 1 .. num |-> IF maxsize[k - 1] > 0 THEN maxsize[k - 1] ELSE 0]

\* the function main prints
main_emit(maxsize) ==
    LET num == emit_num(maxsize, 0, 0)
    IN  emit_bufs(maxsize, 0, num)
        \o << Ev("buflist", emit_buflist(maxsize, num), 0),
               Ev("sizelist", emit_sizelist(maxsize, num), 0),
               Ev("return_which_below", <<num>>, 0) >>

\* the printed function's only statement:
\* return which < num && size <= sizelist[which] ? buflist[which] : (void*)0;
alloc_lookup(num, buflist, sizelist, size, which) ==
    IF which < num /\ size <= sizelist[which + 1]
    THEN buflist[which + 1]
    ELSE Null

(* ---------------------------------------------------------------------- *)
(* Host callbacks                                                          *)
(* ---------------------------------------------------------------------- *)
HSetup(ok) ==
    LET s == bb_setup(bb_reg, ok)
    IN  /\ Idle
        /\ ncalls < MaxCalls
        /\ bb_reg' = s.reg
        /\ usb_open' = s.open
        /\ log' = s.log
        /\ call' = Call("h_setup", 0, 0, 0, 0, 0, 0, NoTime)
        /\ ret' = NoRet
        /\ ncalls' = ncalls + 1
        /\ UNCHANGED <<clockcount, bitcount_tdi, bitcount_tdo, retval_i,
                       retval, nwrites, nreads, rd>>
        /\ UNCHANGED mainvars

HShutdown ==
    /\ Idle
    /\ ncalls < MaxCalls
    /\ log' = bb_shutdown
    /\ call' = Call("h_shutdown", 0, 0, 0, 0, 0, 0, NoTime)
    /\ ret' = NoRet
    /\ ncalls' = ncalls + 1
    /\ UNCHANGED <<bb_reg, usb_open, clockcount, bitcount_tdi, bitcount_tdo,
                   retval_i, retval, nwrites, nreads, rd>>
    /\ UNCHANGED mainvars

HPulseTck(tms, tdi, tdo, rmask, sync, r) ==
    LET d == pulse_drive(bb_reg, bitcount_tdi, tms, tdi)
        p == bb_pulse_tck(d.reg, r, nwrites, nreads)
        c == pulse_capture(retval, retval_i, rmask, p.tdo)
        v == pulse_compare(bitcount_tdo, tdo, p.tdo)
    IN  /\ Idle
        /\ ncalls < MaxCalls
        /\ bb_reg' = p.reg
        /\ bitcount_tdi' = d.bitcount_tdi
        /\ retval' = c.retval
        /\ retval_i' = c.retval_i
        /\ bitcount_tdo' = v.bitcount_tdo
        /\ clockcount' = pulse_count(clockcount)
        /\ nwrites' = p.nw
        /\ nreads' = p.nr
        /\ log' = p.log
        /\ rd' = r
        /\ call' = Call("h_pulse_tck", tms, tdi, tdo, rmask, 0, 0, NoTime)
        /\ ret' = [rc |-> v.rc, line_tdo |-> p.tdo]
        /\ ncalls' = ncalls + 1
        /\ UNCHANGED usb_open
        /\ UNCHANGED mainvars

\* r is what every read of the loop leaves in buf_in (the loop discards it)
HUdelay(usecs, tms, num_tck, tv, r) ==
    LET rds == [i \in 1 .. num_tck |-> r]
        u == h_udelay(bb_reg, usecs, tms, num_tck, tv[1], tv[2], rds,
                      nwrites, nreads)
    IN  /\ Idle
        /\ ncalls < MaxCalls
        /\ bb_reg' = u.reg
        /\ nwrites' = u.nw
        /\ nreads' = u.nr
        /\ log' = u.log
        /\ rd' = IF num_tck > 0 THEN r ELSE NoRead
        /\ call' = Call("h_udelay", tms, 0, 0, 0, usecs, num_tck, tv)
        /\ ret' = NoRet
        /\ ncalls' = ncalls + 1
        /\ UNCHANGED <<usb_open, clockcount, bitcount_tdi, bitcount_tdo,
                       retval_i, retval>>
        /\ UNCHANGED mainvars

\* a callback that only warns: r is its return value and its warning
HIgnored(op, v, r) ==
    /\ Idle
    /\ ncalls < MaxCalls
    /\ log' = r.log
    /\ call' = CallV(op, v)
    /\ ret' = [NoRet EXCEPT !.rc = r.rc]
    /\ ncalls' = ncalls + 1
    /\ UNCHANGED <<bb_reg, usb_open, clockcount, bitcount_tdi, bitcount_tdo,
                   retval_i, retval, nwrites, nreads, rd>>
    /\ UNCHANGED mainvars

HPulseSck == HIgnored("h_pulse_sck", <<>>, h_pulse_sck)

HSetTrst(v) == HIgnored("h_set_trst", <<v>>, h_set_trst(v))

HSetFrequency(v) == HIgnored("h_set_frequency", <<v>>, h_set_frequency(v))

Setup == \E ok \in BOOLEAN : HSetup(ok)

Shutdown == HShutdown

PulseTck ==
    \E tms \in TmsVals, tdi \in TdiVals, tdo \in TdoVals, rmask \in RmaskVals,
       sync \in SyncVals, r \in ReadOutcomes(usb_open) :
        HPulseTck(tms, tdi, tdo, rmask, sync, r)

\* the timestamps are read, and the reads made, only when num_tck > 0
Udelay ==
    \E usecs \in UsecVals, tms \in TmsVals, num_tck \in NumTckVals :
        IF num_tck > 0
        THEN \E tv \in TimePairs, r \in ReadOutcomes(usb_open) :
                HUdelay(usecs, tms, num_tck, tv, r)
        ELSE HUdelay(usecs, tms, num_tck, NoTime, NoRead)

\* the callback returns to the sequencing engine; its locals and the record of
\* the call are gone
Return ==
    /\ ~Idle
    /\ call.op \notin {"main_render", "main_emit"}
    /\ call' = NoCall
    /\ rd' = NoRead
    /\ ret' = NoRet
    /\ log' = <<>>
    /\ UNCHANGED <<bb_reg, usb_open, clockcount, bitcount_tdi, bitcount_tdo,
                   retval_i, retval, nwrites, nreads, ncalls>>
    /\ UNCHANGED mainvars

PulseSck == HPulseSck

SetTrst == \E v \in TrstVals : HSetTrst(v)

SetFrequency == \E v \in FreqVals : HSetFrequency(v)

Next ==
    \/ Setup
    \/ Shutdown
    \/ PulseTck
    \/ Udelay
    \/ PulseSck
    \/ SetTrst
    \/ SetFrequency
    \/ Return

Spec == Init /\ [][Next]_vars

\* sequences of clocked-bit exchanges, started with the capture buffer nearly
\* full
NextCap == PulseTck \/ Return

SpecCap == InitCap /\ [][NextCap]_vars

\* States at the end of main after a playback made of a successful h_setup and
\* Len(retval) exchanges h_pulse_tck(h, 0, -1, -1, 1, 0), with one of the
\* output options given on the command line.
InitHex ==
    /\ retval \in HexInputs
    /\ hex_mode \in HexModes
    /\ retval_i = Len(retval)
    /\ clockcount = Len(retval)
    /\ nwrites = Len(retval)
    /\ nreads = Len(retval)
    /\ bb_reg = 0
    /\ usb_open = TRUE
    /\ bitcount_tdi = 0
    /\ bitcount_tdo = 0
    /\ ncalls = 0
    /\ call = NoCall
    /\ rd = NoRead
    /\ ret = NoRet
    /\ log = <<>>
    /\ realloc_maxsize = [i \in MemClasses |-> 0]

\* main prints the captured bits
MainRender ==
    /\ Idle
    /\ call' = CallV("main_render", <<hex_mode>>)
    /\ log' = main_render(retval, retval_i, hex_mode,
                          udata_front(bitcount_tdi, bitcount_tdo, retval_i))
    /\ UNCHANGED <<bb_reg, usb_open, clockcount, bitcount_tdi, bitcount_tdo,
                   retval_i, retval, nwrites, nreads, ncalls, rd, ret>>
    /\ UNCHANGED mainvars

Render == MainRender

NextHex == Render

SpecHex == InitHex /\ [][NextHex]_vars

HRealloc(size, which) ==
    LET r == h_realloc(realloc_maxsize, size, which)
    IN  /\ Idle
        /\ ncalls < MaxCalls
        /\ realloc_maxsize' = r.maxsize
        /\ log' = r.log
        /\ call' = CallV("h_realloc", <<size, which>>)
        /\ ret' = NoRet
        /\ ncalls' = ncalls + 1
        /\ UNCHANGED <<bb_reg, usb_open, clockcount, bitcount_tdi,
                       bitcount_tdo, retval_i, retval, nwrites, nreads, rd,
                       hex_mode>>

Realloc == \E size \in SizeVals, which \in MemClasses : HRealloc(size, which)

\* main, given -r, prints the allocator after the playback
MainEmit ==
    /\ Idle
    /\ call' = CallV("main_emit", <<>>)
    /\ log' = main_emit(realloc_maxsize)
    /\ UNCHANGED <<bb_reg, usb_open, clockcount, bitcount_tdi, bitcount_tdo,
                   retval_i, retval, nwrites, nreads, ncalls, rd, ret>>
    /\ UNCHANGED mainvars

Emit == MainEmit

\* the memory requests of a playback, and the printing of the allocator
NextAlloc == Realloc \/ Return \/ Emit

SpecAlloc == Init /\ [][NextAlloc]_vars

\* delays with pulses, the two timestamps drawn from TimePairsWide
UdelayWide ==
    \E usecs \in UsecWide, tms \in TmsVals, num_tck \in 1 .. MaxTck,
       tv \in TimePairsWide, r \in ReadOutcomes(usb_open) :
        HUdelay(usecs, tms, num_tck, tv, r)

NextTime == UdelayWide \/ Return

SpecTime == Init /\ [][NextTime]_vars

(* ---------------------------------------------------------------------- *)
(* Properties                                                              *)
(* ---------------------------------------------------------------------- *)
IsWrite(e) == e.ev = "ftdi_write_data"
IsRead(e) == e.ev = "ftdi_read_data"
NumWrites(l) == Len(SelectSeq(l, IsWrite))
NumReads(l) == Len(SelectSeq(l, IsRead))
TmsOf(b) == IF And8(b, MASK_TMS) # 0 THEN 1 ELSE 0
TdiOf(b) == IF And8(b, MASK_TDI) # 0 THEN 1 ELSE 0
TdoOf(b) == IF And8(b, MASK_TDO) # 0 THEN 1 ELSE 0
\* microseconds from tv1 to tv2
Elapsed(tv1, tv2) == (tv2[1] - tv1[1]) * 1000000 + tv2[2] - tv1[2]

\* C1: every pulse hands ftdi_write_data exactly three bytes; the first and the
\* third have the TCK bit clear and are equal, and the second is the first
\* with the TCK bit set and nothing else changed.
C1_PulseShape ==
    \A i \in 1 .. Len(log) :
        IsWrite(log[i]) =>
            LET b == log[i].data
            IN  /\ Len(b) = 3
                /\ And8(b[1], MASK_TCK) = 0
                /\ And8(b[3], MASK_TCK) = 0
                /\ b[1] = b[3]
                /\ b[2] = b[1] + MASK_TCK

\* a pulse written with TMS and TDI both high
C1_Witness ==
    \E i \in 1 .. Len(log) :
        IsWrite(log[i]) /\ log[i].data = <<136, 168, 136>>

\* C2: the bit an exchange samples is the TDO bit of the third byte of buf_in
\* after that exchange's read, whatever the first two bytes and the other
\* bits are; without an expected TDO it is also what the exchange returns.
C2_TdoFromThirdByte ==
    call.op = "h_pulse_tck" =>
        /\ ret.line_tdo = BitAt(rd.buf[3], 6)
        /\ (call.tdo < 0 => ret.rc = BitAt(rd.buf[3], 6))

\* three bytes read back, TDO high in the first two and low in the third
C2_Witness ==
    /\ call.op = "h_pulse_tck"
    /\ rd.len = 3
    /\ rd.buf = <<64, 64, 191>>
    /\ ret.line_tdo = 0
    /\ call.tdo < 0
    /\ ret.rc = 0

\* C3: every write of three bytes is followed at once by the read of three
\* bytes of the same pulse, no read comes without its write before it, and
\* the pulses of a callback carry the ordinals following those of the
\* callbacks before it, so that writes and reads strictly alternate.
C3_Alternate ==
    /\ nwrites = nreads
    /\ NumWrites(log) = NumReads(log)
    /\ \A i \in 1 .. Len(log) :
        /\ IsWrite(log[i]) =>
            /\ i < Len(log)
            /\ IsRead(log[i + 1])
            /\ log[i + 1].n = log[i].n
            /\ Len(log[i].data) = 3
            /\ log[i + 1].data = <<3>>
            /\ log[i].n = nwrites - NumWrites(log) + NumWrites(SubSeq(log, 1, i))
        /\ IsRead(log[i]) => (i > 1 /\ IsWrite(log[i - 1]))

\* a delay of two pulses made after an earlier callback's pulse
C3_Witness ==
    /\ call.op = "h_udelay"
    /\ call.num_tck = 2
    /\ NumWrites(log) = 2
    /\ nwrites >= 3

\* C4: bb_reg never holds a bit other than TMS and TDI, and no byte written
\* holds a bit outside MASK_IO; the TDO bit is never written as 1.
C4_OutputsOnly ==
    /\ And8(bb_reg, Not8(Or8(MASK_TMS, MASK_TDI))) = 0
    /\ \A i \in 1 .. Len(log) :
        IsWrite(log[i]) =>
            \A k \in 1 .. Len(log[i].data) :
                /\ And8(log[i].data[k], Not8(MASK_IO)) = 0
                /\ TdoOf(log[i].data[k]) = 0

\* both outputs high in the register and on the wire, on an opened device
C4_Witness ==
    /\ usb_open
    /\ bb_reg = 136
    /\ \E i \in 1 .. Len(log) : IsWrite(log[i]) /\ log[i].data[2] = 168

\* C5: the TMS and TDI bits of bb_reg change only as a callback sets them: an
\* exchange sets TMS and, if tdi is given, TDI; a delay with pulses sets TMS;
\* a successful setup clears both; everything else, the pulses included,
\* leaves them alone, the clock bit is never stored, and every pulse of a
\* callback is written with the TMS and TDI bits the register then holds.
C5_Step ==
    /\ call'.op = "h_pulse_tck" =>
        /\ TmsOf(bb_reg') = call'.tms
        /\ TdiOf(bb_reg') = (IF call'.tdi >= 0 THEN call'.tdi ELSE TdiOf(bb_reg))
    /\ call'.op = "h_udelay" =>
        /\ TmsOf(bb_reg') = (IF call'.num_tck > 0 THEN call'.tms ELSE TmsOf(bb_reg))
        /\ TdiOf(bb_reg') = TdiOf(bb_reg)
    /\ call'.op = "h_setup" =>
        bb_reg' = (IF usb_open' THEN 0 ELSE bb_reg)
    /\ call'.op \in {"h_shutdown", "none"} => bb_reg' = bb_reg
    /\ And8(bb_reg', MASK_TCK) = 0
    /\ \A i \in 1 .. Len(log') :
        IsWrite(log'[i]) =>
            \A k \in 1 .. 3 :
                /\ TmsOf(log'[i].data[k]) = TmsOf(bb_reg')
                /\ TdiOf(log'[i].data[k]) = TdiOf(bb_reg')

C5_Persist == [][C5_Step]_vars

\* an exchange without tdi that lowers TMS, written with TDI still high
C5_Witness ==
    /\ call.op = "h_pulse_tck"
    /\ call.tdi < 0
    /\ call.tms = 0
    /\ \E i \in 1 .. Len(log) : IsWrite(log[i]) /\ log[i].data = <<8, 40, 8>>

\* C6: an exchange sets the TMS bit to tms and issues exactly one pulse; with
\* tdi >= 0 it sets the TDI bit to tdi and adds one to bitcount_tdi before
\* that pulse is written; with tdi < 0 it leaves both as they were.
C6_Step ==
    call'.op = "h_pulse_tck" =>
        /\ TmsOf(bb_reg') = call'.tms
        /\ NumWrites(log') = 1
        /\ NumReads(log') = 1
        /\ nwrites' = nwrites + 1
        /\ \A i \in 1 .. Len(log') :
            IsWrite(log'[i]) =>
                /\ TmsOf(log'[i].data[1]) = call'.tms
                /\ call'.tdi >= 0 => TdiOf(log'[i].data[1]) = call'.tdi
        /\ IF call'.tdi >= 0
           THEN /\ TdiOf(bb_reg') = call'.tdi
                /\ bitcount_tdi' = bitcount_tdi + 1
           ELSE /\ TdiOf(bb_reg') = TdiOf(bb_reg)
                /\ bitcount_tdi' = bitcount_tdi

C6_Exchange == [][C6_Step]_vars

\* a second driven bit, 0, that lowers TDI while TMS is raised
C6_Witness ==
    /\ call.op = "h_pulse_tck"
    /\ call.tdi = 0
    /\ call.tms = 1
    /\ bitcount_tdi = 2
    /\ \E i \in 1 .. Len(log) : IsWrite(log[i]) /\ log[i].data = <<128, 160, 128>>

\* C7: an exchange returns -1 exactly when tdo >= 0 and tdo differs from the
\* sampled bit, and the sampled bit (0 or 1) otherwise; bitcount_tdo grows by
\* one exactly when tdo >= 0; and with or without a mismatch the register is
\* set, the bit is captured and clockcount grows by one.
C7_Step ==
    call'.op = "h_pulse_tck" =>
        LET sampled == TdoOf(rd'.buf[3])
            mismatch == call'.tdo >= 0 /\ call'.tdo # sampled
        IN  /\ ret'.rc = (IF mismatch THEN -1 ELSE sampled)
            /\ bitcount_tdo' = bitcount_tdo + (IF call'.tdo >= 0 THEN 1 ELSE 0)
            /\ clockcount' = clockcount + 1
            /\ TmsOf(bb_reg') = call'.tms
            /\ call'.tdi >= 0 => TdiOf(bb_reg') = call'.tdi
            /\ NumWrites(log') = 1
            /\ (call'.rmask = 1 /\ retval_i < RETVAL_SIZE) =>
                    retval' = Append(retval, sampled)

C7_Compare == [][C7_Step]_vars

\* a mismatch (expected 1, sampled 0) whose bit was captured and counted
C7_Witness ==
    /\ call.op = "h_pulse_tck"
    /\ call.tdo = 1
    /\ ret.line_tdo = 0
    /\ ret.rc = -1
    /\ call.rmask = 1
    /\ retval_i >= 1
    /\ retval[retval_i] = 0
    /\ bitcount_tdo >= 1
    /\ clockcount >= 1

\* C8: an exchange with rmask = 1 appends the bit it sampled to the capture
\* sequence while fewer than 256 bits are held; at 256 the bit is dropped and
\* the sequence stays as it is; an exchange with rmask # 1 never changes it.
C8_Step ==
    /\ call'.op = "h_pulse_tck" =>
        IF call'.rmask = 1 /\ retval_i < 256
        THEN /\ retval' = Append(retval, TdoOf(rd'.buf[3]))
             /\ retval_i' = retval_i + 1
        ELSE /\ retval' = retval
             /\ retval_i' = retval_i
    /\ retval_i' <= 256
    /\ Len(retval') = retval_i'

C8_Capture == [][C8_Step]_vars

\* a capturing exchange made with 256 bits held: its bit differs from the
\* last bit held, so it was dropped
C8_Witness ==
    /\ call.op = "h_pulse_tck"
    /\ call.rmask = 1
    /\ retval_i = 256
    /\ Len(retval) = 256
    /\ retval[256] # ret.line_tdo

\* C9: clockcount equals the number of pulses issued through the transport
\* (one ftdi_write_data each), whichever callback issued them.
C9_ClockCountsAllPulses == clockcount = nwrites

\* C10: a delay with num_tck = 0 issues no pulse and calls usleep(usecs) if
\* usecs > 0 and nothing otherwise; a delay with num_tck > 0 reads the time,
\* issues exactly num_tck pulses, reads the time again and only then calls
\* usleep, with the residual, exactly when the residual is positive.
C10_Delay ==
    call.op = "h_udelay" =>
        LET n == call.num_tck
            d == call.usecs
            residual == d - Elapsed(call.tv1, call.tv2)
        IN  /\ n = 0 =>
                log = (IF d > 0 THEN << Ev("usleep", <<d>>, 0) >> ELSE <<>>)
            /\ n > 0 =>
                /\ NumWrites(log) = n
                /\ NumReads(log) = n
                /\ Len(log) = 2 * n + 2 + (IF residual > 0 THEN 1 ELSE 0)
                /\ log[1].ev = "gettimeofday"
                /\ \A i \in 2 .. 2 * n + 1 : IsWrite(log[i]) \/ IsRead(log[i])
                /\ log[2 * n + 2].ev = "gettimeofday"
                /\ residual > 0 => log[2 * n + 3] = Ev("usleep", <<residual>>, 0)

\* two pulses that used up the whole delay: the residual is 0, no usleep
C10_Witness ==
    /\ call.op = "h_udelay"
    /\ call.num_tck = 2
    /\ call.usecs = 250
    /\ Elapsed(call.tv1, call.tv2) = 250
    /\ NumWrites(log) = 2
    /\ Len(log) = 6

\* C11: the residual of a delay with pulses is the requested delay minus the
\* microseconds from the first timestamp to the second,
\* (s2 - s1) * 1000000 + us2 - us1, whether the two timestamps lie in the same
\* second or one or more second boundaries apart: usleep is called with that
\* number when it is positive, and is not called otherwise.
C11_Residual ==
    (call.op = "h_udelay" /\ call.num_tck > 0) =>
        LET s1 == call.tv1[1]
            us1 == call.tv1[2]
            s2 == call.tv2[1]
            us2 == call.tv2[2]
            residual == call.usecs - ((s2 - s1) * 1000000 + us2 - us1)
            sleeps == SelectSeq(log, LAMBDA e : e.ev = "usleep")
        IN  sleeps = IF residual > 0
                     THEN << Ev("usleep", <<residual>>, 0) >>
                     ELSE <<>>

\* a loop that began late in one second and ended early two seconds later,
\* followed by a sleep for the rest of a long delay
C11_Witness ==
    /\ call.op = "h_udelay"
    /\ call.num_tck > 0
    /\ call.tv2[1] = call.tv1[1] + 2
    /\ call.tv1[2] = 999999
    /\ call.tv2[2] = 1
    /\ call.usecs = (MaxSec + 1) * 1000000
    /\ log[Len(log)] = Ev("usleep", <<call.usecs - 1000002>>, 0)

\* C12: a setup in which the device could not be opened reports failure to
\* the sequencing engine (a negative return value), so that the engine
\* attempts no pulse in that session.
C12_SetupFailureReported ==
    (call.op = "h_setup" /\ ~usb_open) => ret.rc < 0

\* C13: a shutdown while no setup is in effect is a no-op: it calls nothing
\* of the transport, changes neither the pin register nor any session state,
\* and like every shutdown it returns 0.
C13_ShutdownNoOp ==
    [][ call'.op = "h_shutdown" =>
            /\ ret'.rc = 0
            /\ ~usb_open =>
                    /\ log' = <<>>
                    /\ UNCHANGED <<bb_reg, usb_open, clockcount, bitcount_tdi,
                                   bitcount_tdo, retval_i, retval, nwrites,
                                   nreads>> ]_vars

\* C14: h_pulse_sck, h_set_trst and h_set_frequency are accepted in every
\* state and for every argument; each writes one warning and calls nothing
\* else, in particular nothing of the transport, leaves the pin register, the
\* three counters, the capture sequence and the device as they are, and
\* returns no error: h_set_frequency returns 0.
C14_Step ==
    call'.op \in {"h_pulse_sck", "h_set_trst", "h_set_frequency"} =>
        /\ Len(log') = 1
        /\ log'[1].ev = CASE call'.op = "h_pulse_sck" ->
                                "fprintf_stderr_sck_ignored"
                           [] call'.op = "h_set_trst" ->
                                "fprintf_stderr_trst_ignored"
                           [] call'.op = "h_set_frequency" ->
                                "fprintf_stderr_frequency_ignored"
        /\ log'[1].data = call'.v
        /\ NumWrites(log') = 0
        /\ NumReads(log') = 0
        /\ ret'.rc = 0
        /\ UNCHANGED <<bb_reg, usb_open, clockcount, bitcount_tdi,
                       bitcount_tdo, retval_i, retval, nwrites, nreads>>

C14_Ignored == [][C14_Step]_vars

\* a frequency request made after a pulse that drove TMS and TDI high: the
\* register still holds both bits and the request returned 0
C14_Witness ==
    /\ call.op = "h_set_frequency"
    /\ call.v = <<1000000>>
    /\ ret.rc = 0
    /\ bb_reg = MASK_TMS + MASK_TDI
    /\ clockcount = 1
    /\ bitcount_tdi = 1
    /\ log = << Ev("fprintf_stderr_frequency_ignored", <<1000000>>, 0) >>

\* the arguments of the printf("%x", val) calls, in order
Printed == [i \in 1 .. Len(SelectSeq(log, LAMBDA e : e.ev = "printf_x")) |->
                SelectSeq(log, LAMBDA e : e.ev = "printf_x")[i].data[1]]
\* the indices at which u.retval was read, in order
IndicesRead == [i \in 1 .. Len(SelectSeq(log, LAMBDA e : e.ev = "u_retval")) |->
                    SelectSeq(log, LAMBDA e : e.ev = "u_retval")[i].data[1]]
\* the nibble whose bits are a, b, c, d from the highest to the lowest
Nibble(a, b, c, d) == 8 * a + 4 * b + 2 * c + d

\* C15 as the specification states it: the bits 1,0,0,0, the first captured
\* first, are printed as the nibble 8 by -L and as the nibble 1 by -B.
C15_AsStated ==
    (call.op = "main_render" /\ retval = <<1, 0, 0, 0>>) =>
        /\ hex_mode = 1 => Printed = <<8>>
        /\ hex_mode = 2 => Printed = <<1>>

\* C15: the bits 1,0,0,0, the first captured first, are printed as the nibble
\* 1 by -L, where the first captured bit is the lowest bit of the value, and
\* as the nibble 8 by -B, where it is the highest.
C15_Example ==
    (call.op = "main_render" /\ retval = <<1, 0, 0, 0>>) =>
        /\ hex_mode = 1 => Printed = <<1>>
        /\ hex_mode = 2 => Printed = <<8>>

C15_Witness ==
    /\ call.op = "main_render"
    /\ retval = <<1, 0, 0, 0>>
    /\ hex_mode = 1
    /\ log = << Ev("printf_0x", <<>>, 0), Ev("u_retval", <<3>>, 0),
                Ev("u_retval", <<2>>, 0), Ev("u_retval", <<1>>, 0),
                Ev("u_retval", <<0>>, 0), Ev("printf_x", <<1>>, 0),
                Ev("printf_newline", <<>>, 0) >>

\* C16 as the specification states it: for a capture whose length is a
\* multiple of 4, -L prints one nibble per group of four in capture order, the
\* k-th nibble being the k-th group read backwards, and -B prints the k-th
\* group read forwards as the k-th nibble.
C16_AsStated ==
    (call.op = "main_render" /\ hex_mode # 0 /\ retval_i % 4 = 0) =>
        /\ Len(Printed) = retval_i \div 4
        /\ \A k \in 1 .. Len(Printed) :
            /\ hex_mode = 1 =>
                    Printed[k] = Nibble(retval[4 * k], retval[4 * k - 1],
                                        retval[4 * k - 2], retval[4 * k - 3])
            /\ hex_mode = 2 =>
                    Printed[k] = Nibble(retval[4 * k - 3], retval[4 * k - 2],
                                        retval[4 * k - 1], retval[4 * k])

\* C16: for a capture whose length N is a multiple of 4, both modes print one
\* nibble per group of four. -B prints the k-th group read forwards as the
\* k-th nibble. -L prints the whole capture backwards: its k-th nibble is the
\* k-th group counted from the end of the capture, group N/4 - k + 1, read
\* backwards.
C16_Groups ==
    (call.op = "main_render" /\ hex_mode # 0 /\ retval_i % 4 = 0) =>
        /\ Len(Printed) = retval_i \div 4
        /\ \A k \in 1 .. Len(Printed) :
            LET g == retval_i \div 4 - k + 1
            IN  /\ hex_mode = 1 =>
                        Printed[k] = Nibble(retval[4 * g], retval[4 * g - 1],
                                            retval[4 * g - 2], retval[4 * g - 3])
                /\ hex_mode = 2 =>
                        Printed[k] = Nibble(retval[4 * k - 3], retval[4 * k - 2],
                                            retval[4 * k - 1], retval[4 * k])

\* two groups, 1,0,0,0 captured before 1,1,0,0: -L prints the second group
\* first, as 3, and then the first, as 1
C16_Witness ==
    /\ call.op = "main_render"
    /\ hex_mode = 1
    /\ retval = <<1, 0, 0, 0, 1, 1, 0, 0>>
    /\ Printed = <<3, 1>>

\* C17 as the specification states it: for a capture of N bits, 1 <= N <=
\* 256, both hex modes print N div 4 nibbles, and the bits of a last group of
\* fewer than four appear in no nibble.
C17_AsStated ==
    (call.op = "main_render" /\ hex_mode # 0 /\ retval_i >= 1) =>
        Len(Printed) = retval_i \div 4

\* C17: for a capture of N bits, 1 <= N <= 256, both hex modes print one
\* nibble for every group of four begun, (N + 3) div 4 in all. When N is not
\* a multiple of 4, the last value printed by -B holds the N mod 4 bits
\* captured last as its highest bits, above zeros.
C17_Count ==
    (call.op = "main_render" /\ hex_mode # 0 /\ retval_i >= 1) =>
        LET n == retval_i
            full == n - (n % 4)
            bit(i) == IF i <= n THEN retval[i] ELSE 0
        IN  /\ Len(Printed) = (n + 3) \div 4
            /\ (hex_mode = 2 /\ n % 4 # 0) =>
                    Printed[Len(Printed)] = Nibble(bit(full + 1), bit(full + 2),
                                                   bit(full + 3), 0)

\* five bits, the last of them 1: -B prints a second nibble, 8, for it
C17_Witness ==
    /\ call.op = "main_render"
    /\ hex_mode = 2
    /\ retval = <<1, 0, 0, 0, 1>>
    /\ Printed = <<8, 8>>

\* C20: while the captured bits are printed in a hex mode, every index at
\* which the capture array is read is that of a captured bit, 0 .. N - 1.
C20_IndicesInRange ==
    (call.op = "main_render" /\ hex_mode # 0) =>
        \A i \in 1 .. Len(IndicesRead) :
            IndicesRead[i] >= 0 /\ IndicesRead[i] < retval_i

\* the larger of two integers
Larger(a, b) == IF a > b THEN a ELSE b
\* the static buffers the printed function declares, as <<class, size>>
Declared(l) == { l[i].data : i \in { k \in 1 .. Len(l) : l[k].ev = "static_buf" } }
\* the data of the one event named ev in l
Table(l, ev) == l[CHOOSE k \in 1 .. Len(l) : l[k].ev = ev].data

\* C18: the profile starts at 0 for every class; each h_realloc raises the
\* entry of its class to the size requested if that is larger and changes no
\* other entry, so an entry is the largest size ever requested for its class
\* and never decreases. The function printed from the profile declares one
\* static buffer, of the size of the entry, for exactly the classes whose
\* entry is not 0; it returns the buffer of the class for every size up to
\* the entry, and the null pointer for a larger size, for a class without a
\* buffer and for a class index at or above the highest used class plus one.
C18_Step ==
    /\ call'.op = "h_realloc" =>
            LET size == call'.v[1]
                which == call'.v[2]
            IN  /\ realloc_maxsize' =
                        [realloc_maxsize EXCEPT ![which] = Larger(@, size)]
                /\ \A i \in MemClasses : realloc_maxsize'[i] >= realloc_maxsize[i]
    /\ call'.op = "main_emit" =>
            LET num == Table(log', "return_which_below")[1]
                buflist == Table(log', "buflist")
                sizelist == Table(log', "sizelist")
                used == { i \in MemClasses : realloc_maxsize[i] > 0 }
            IN  /\ realloc_maxsize' = realloc_maxsize
                /\ Declared(log') = { <<i, realloc_maxsize[i]>> : i \in used }
                /\ \A i \in used : i < num
                /\ num > 0 => num - 1 \in used
                /\ \A which \in 0 .. MemNum, size \in 0 .. 6 :
                        alloc_lookup(num, buflist, sizelist, size, which) =
                            IF which \in used /\ size <= realloc_maxsize[which]
                            THEN buflist[which + 1]
                            ELSE Null
                /\ \A which \in used : buflist[which + 1] = which

C18_Profile == (\A i \in MemClasses : realloc_maxsize[i] = 0) /\ [][C18_Step]_vars

\* the allocator printed after requests of 5 and then 2 bytes for class 2 and
\* none for the classes below it: one buffer of 5 bytes, behind two null
\* entries
C18_Witness ==
    /\ call.op = "main_emit"
    /\ ncalls >= 2
    /\ realloc_maxsize = [i \in MemClasses |-> IF i = 2 THEN 5 ELSE 0]
    /\ log = << Ev("static_buf", <<2, 5>>, 0),
                Ev("buflist", <<Null, Null, 2>>, 0),
                Ev("sizelist", <<0, 0, 5>>, 0),
                Ev("return_which_below", <<3>>, 0) >>

\* C19: a delay with num_tck > 0 sets TMS to the level asked for before its
\* first pulse: each of its num_tck pulses is written with that TMS and with
\* the TDI the register held before the call, and the register keeps that
\* TMS afterwards; a delay with num_tck <= 0 writes nothing and leaves the
\* register as it is. Neither changes bitcount_tdi, bitcount_tdo or the
\* capture sequence.
C19_Step ==
    call'.op = "h_udelay" =>
        /\ call'.num_tck > 0 =>
            /\ NumWrites(log') = call'.num_tck
            /\ \A i \in 1 .. Len(log') :
                    IsWrite(log'[i]) =>
                        \A k \in 1 .. 3 :
                            /\ TmsOf(log'[i].data[k]) = call'.tms
                            /\ TdiOf(log'[i].data[k]) = TdiOf(bb_reg)
            /\ bb_reg' = bb_tms(bb_reg, call'.tms)
            /\ TmsOf(bb_reg') = call'.tms
        /\ call'.num_tck <= 0 =>
            /\ NumWrites(log') = 0
            /\ bb_reg' = bb_reg
        /\ UNCHANGED <<bitcount_tdi, bitcount_tdo, retval_i, retval>>

C19_DelayTms == [][C19_Step]_vars

\* a delay of two pulses that raised TMS while TDI was high from an earlier
\* exchange: both pulses carry TMS and TDI
C19_Witness ==
    /\ call.op = "h_udelay"
    /\ call.num_tck = 2
    /\ call.tms = 1
    /\ bb_reg = MASK_TMS + MASK_TDI
    /\ bitcount_tdi = 1
    /\ NumWrites(log) = 2
    /\ \A i \in 1 .. Len(log) :
            IsWrite(log[i]) =>
                log[i].data = <<MASK_TMS + MASK_TDI,
                                MASK_TMS + MASK_TDI + MASK_TCK,
                                MASK_TMS + MASK_TDI>>

====
